---------------------------- MODULE Spec2Model ----------------------------
(***************************************************************************)
(* Iterated Prisoner's Dilemma tournament simulator.                       *)
(*                                                                         *)
(* The module models src/tournament.py (Player, Tournament), the strategy  *)
(* functions of src/main.py and the probabilistic suffix tree with the     *)
(* strategy0..strategy5 functions of src/strategy_template.py.             *)
(*                                                                         *)
(* Floats are modelled as reduced non-negative rationals <<num, den>>.     *)
(* Python lists are sequences; Python index k is TLA+ index k + 1.         *)
(***************************************************************************)
EXTENDS Integers, Sequences, FiniteSets, TLC

(***************************************************************************)
(* Bounds of the model.                                                    *)
(***************************************************************************)
MaxPlayers == 3       \* longest list of players handed to Tournament
MaxRounds == 2        \* largest `rounds` argument of the short tournaments
LongRounds == 21      \* `rounds` argument of the long tournaments
MaxRandomRounds == 1  \* largest `rounds` argument of a match with RandomBot
MaxContinues == 1     \* cap on the draws of a tournament that do not stop
DiscDen == 2          \* discount factors are k / DiscDen, k \in 0..DiscDen
DrawDen == 4          \* random.random() yields k / DrawDen, k \in 0..DrawDen-1
MaxDepth == 3         \* largest `depth` of a predictor exercised on its own
MaxHistory == 6       \* longest history handed to such a predictor

(***************************************************************************)
(* Rational arithmetic standing for Python float arithmetic.               *)
(***************************************************************************)
RECURSIVE GCD(_, _)
GCD(a, b) == IF b = 0 THEN a ELSE GCD(b, a % b)

Rat(n, d) == LET g == GCD(n, d) IN <<n \div g, d \div g>>

One == <<1, 1>>

RatMul(x, y) == Rat(x[1] * y[1], x[2] * y[2])

RECURSIVE RatPow(_, _)
RatPow(x, k) == IF k = 0 THEN One ELSE RatMul(x, RatPow(x, k - 1))

RatGreater(x, y) == x[1] * y[2] > y[1] * x[2]

FromInt(p) == <<p, 1>>

(***************************************************************************)
(* Optional arguments (Python None).                                       *)
(***************************************************************************)
None == [some |-> FALSE, val |-> <<>>]

Some(v) == [some |-> TRUE, val |-> v]

(***************************************************************************)
(* Probabilistic suffix tree (src/strategy_template.py).                   *)
(* A tree is the function from the path of every created node (the         *)
(* sequence of (own move, opponent move) keys leading to it from the root) *)
(* to the node's count; the root is the empty path.                        *)
(***************************************************************************)
Depth == 5

Threshold == 20

Keys == << <<0, 0>>, <<0, 1>>, <<1, 0>>, <<1, 1>> >>

PSTNode == (<<>> :> 0)

\* the keys of window positions start .. start+len-1 (0-based)
WindowPath(history, myhistory, start, len) ==
    [k \in 1..len |-> <<myhistory[start + k], history[start + k]>>]

\* only the last node of the window's path is counted
InsertWindowLeafOnly(nodes, history, myhistory, start, depth) ==
    LET path == WindowPath(history, myhistory, start, depth)
        visited == {SubSeq(path, 1, index + 1) : index \in 0..(depth - 1)}
    IN [p \in DOMAIN nodes \cup visited |->
          (IF p \in DOMAIN nodes THEN nodes[p] ELSE 0)
          + (IF p = path THEN 1 ELSE 0)]

\* lines 20-26: the inner loop over index walks down the window's path; the
\* node of each of its `depth` prefixes is created when missing (count 0)
\* and its count is incremented
InsertWindow(nodes, history, myhistory, start, depth) ==
    LET path == WindowPath(history, myhistory, start, depth)
        visited == {SubSeq(path, 1, index + 1) : index \in 0..(depth - 1)}
    IN [p \in DOMAIN nodes \cup visited |->
          (IF p \in DOMAIN nodes THEN nodes[p] ELSE 0)
          + (IF p \in visited THEN 1 ELSE 0)]

\* line 19: the outer loop, start = 0 .. count - 1 in this order
RECURSIVE UpdateWindows(_, _, _, _, _)
UpdateWindows(nodes, history, myhistory, count, depth) ==
    IF count <= 0 THEN nodes
    ELSE InsertWindow(
            UpdateWindows(nodes, history, myhistory, count - 1, depth),
            history, myhistory, count - 1, depth)

WindowCount(history, depth) ==
    IF Len(history) - depth - 1 > 0 THEN Len(history) - depth - 1 ELSE 0

update(tree, history, myhistory) ==
    [depth |-> tree.depth,
     nodes |-> UpdateWindows(tree.nodes, history, myhistory,
                            Len(history) - tree.depth - 1, tree.depth),
     passes |-> tree.passes + WindowCount(history, tree.depth) * tree.depth]

probabilistic_suffix_tree(history, myhistory, depth) ==
    update([depth |-> depth, nodes |-> PSTNode, passes |-> 0],
           history, myhistory)

ZeroCounts == [k \in 1..4 |-> 0]

\* Python slice seq[-n:]
LastN(seq, n) ==
    IF Len(seq) <= n THEN seq ELSE SubSeq(seq, Len(seq) - n + 1, Len(seq))

\* lines 30-38: d runs from depth down to 2; context[-d] is element
\* Len(context) - d + 1 of the sequence
RECURSIVE Walk(_, _, _, _, _)
Walk(nodes, context1, context2, d, path) ==
    IF d <= 1 THEN Some(path)
    ELSE LET key == <<context1[Len(context1) - d + 1],
                      context2[Len(context2) - d + 1]>>
             child == Append(path, key)
         IN IF child \notin DOMAIN nodes THEN None
            ELSE Walk(nodes, context1, context2, d - 1, child)

\* lines 39-43: the counts of the four children of the node reached; lines
\* 32-37: four zero counts when a child on the way is missing
ChildCounts(nodes, node) ==
    IF ~node.some THEN ZeroCounts
    ELSE [k \in 1..4 |->
            IF Append(node.val, Keys[k]) \in DOMAIN nodes
            THEN nodes[Append(node.val, Keys[k])] ELSE 0]

traverse(tree, depth, context1, context2) ==
    ChildCounts(tree.nodes, Walk(tree.nodes, context1, context2, depth, <<>>))

\* the last maximal item wins
ArgMaxLast(counts) ==
    CHOOSE k \in 1..4 :
        /\ \A l \in 1..4 : counts[l] <= counts[k]
        /\ \A l \in (k + 1)..4 : counts[l] < counts[k]

\* Python max(): the first maximal item in iteration order
ArgMax(counts) ==
    CHOOSE k \in 1..4 :
        /\ \A l \in 1..4 : counts[l] <= counts[k]
        /\ \A l \in 1..(k - 1) : counts[l] < counts[k]

\* lines 51-60
Prediction(tree, children_counts) ==
    [tree |-> tree,
     counts |-> children_counts,
     ret |-> IF children_counts[1] + children_counts[2]
                + children_counts[3] + children_counts[4] = 0 THEN 0
             ELSE IF Keys[ArgMax(children_counts)] \in {<<0, 0>>, <<1, 0>>}
                  THEN 0 ELSE 1]

\* lines 47-49, on the tree that line 46 has updated
QueryUpdated(tree, history, myhistory) ==
    Prediction(tree, traverse(tree, tree.depth, LastN(myhistory, tree.depth),
                              LastN(history, tree.depth)))

query(tree, history, myhistory) ==
    QueryUpdated(update(tree, history, myhistory), history, myhistory)

(***************************************************************************)
(* Strategy functions (src/main.py, src/strategy_template.py).             *)
(* A call is given the record of its arguments and the predictor           *)
(* attributes of strategy1/3/5; it yields the set of values it may return, *)
(* the attributes after the call, and whether the call raises.             *)
(***************************************************************************)
MemoryFns == {"strategy1", "strategy3", "strategy5"}

BlindArgNames == {"discount", "payoff_matrices"}

MemoryArgNames == {"history", "myhistory", "discount", "payoff_matrices"}

Raised(psts) == [rets |-> {}, psts |-> psts, raises |-> TRUE]

Returns(vals, psts) == [rets |-> vals, psts |-> psts, raises |-> FALSE]

always_cooperate(args, psts) == Returns({0}, psts)

always_defect(args, psts) == Returns({1}, psts)

random_strategy(args, psts) == Returns({0, 1}, psts)

\* a decision function supplied by the caller of Player that keeps to no
\* contract on its return value
ReturnValues == {-1, 0, 1, 2}

supplied_strategy(args, psts) == Returns(ReturnValues, psts)

\* the player's own last move is copied
tit_for_tatOwnMove(args, psts) ==
    IF DOMAIN args # MemoryArgNames THEN Raised(psts)
    ELSE LET myhistory == args.myhistory
         IN Returns({IF myhistory.some /\ myhistory.val # <<>>
                     THEN myhistory.val[Len(myhistory.val)] ELSE 0}, psts)

tit_for_tat(args, psts) ==
    IF DOMAIN args # MemoryArgNames THEN Raised(psts)
    ELSE LET history == args.history
         IN Returns({IF history.some /\ history.val # <<>>
                     THEN history.val[Len(history.val)] ELSE 0}, psts)

\* strategy0, strategy2, strategy4
BlindStrategy(args, psts) ==
    IF DOMAIN args # BlindArgNames THEN Raised(psts) ELSE Returns({1}, psts)

\* lines 98-99: the prediction is returned and the attribute keeps the tree
Predicted(fn, psts, prediction) ==
    Returns({IF prediction.ret = 0 THEN 0 ELSE 1},
            [psts EXCEPT ![fn] = Some(prediction.tree)])

\* lines 92-93
Mirror(history) == IF history # <<>> THEN history[Len(history)] ELSE 1

\* strategy1, strategy3, strategy5; fn names the function whose attribute
\* `pst` holds the predictor
MemoryStrategy(fn, args, psts) ==
    IF DOMAIN args # MemoryArgNames \/ ~args.history.some THEN Raised(psts)
    ELSE IF Len(args.history.val) < Threshold
         THEN Returns({Mirror(args.history.val)}, psts)
         ELSE Predicted(fn, psts,
                 query(IF psts[fn].some THEN psts[fn].val
                       ELSE probabilistic_suffix_tree(args.history.val,
                                                      args.myhistory.val, Depth),
                       args.history.val, args.myhistory.val))

Call(fn, args, psts) ==
    CASE fn = "always_cooperate" -> always_cooperate(args, psts)
      [] fn = "always_defect" -> always_defect(args, psts)
      [] fn = "tit_for_tat" -> tit_for_tat(args, psts)
      [] fn = "random_strategy" -> random_strategy(args, psts)
      [] fn = "supplied_strategy" -> supplied_strategy(args, psts)
      [] fn \in {"strategy0", "strategy2", "strategy4"} ->
            BlindStrategy(args, psts)
      [] fn \in MemoryFns -> MemoryStrategy(fn, args, psts)

(***************************************************************************)
(* Players (src/tournament.py Player, src/main.py main).                   *)
(***************************************************************************)
Player(teamname, strategies) ==
    [teamname |-> teamname, strategies |-> strategies]

CooperateBot == Player("CooperateBot", [m \in 1..6 |-> "always_cooperate"])

DefectBot == Player("DefectBot", [m \in 1..6 |-> "always_defect"])

TFT == Player("TFT", <<"always_cooperate", "tit_for_tat", "always_cooperate",
                       "tit_for_tat", "always_cooperate", "tit_for_tat">>)

RandomBot == Player("RandomBot", [m \in 1..6 |-> "random_strategy"])

My_Player == Player("My_Player", <<"strategy0", "strategy1", "strategy2",
                                   "strategy3", "strategy4", "strategy5">>)

SuppliedBot == Player("SuppliedBot", [m \in 1..6 |-> "supplied_strategy"])

payoff_p1 == << <<3, 0>>, <<5, 1>> >>

payoff_p2 == << <<3, 5>>, <<0, 1>> >>

\* the dispatch forgets mode 5
PlayArgsForgetsMode5(payoff_matrices, history, myhistory, game_mode, discount) ==
    IF game_mode \in {1, 3}
    THEN [history |-> history, myhistory |-> myhistory,
          discount |-> discount, payoff_matrices |-> payoff_matrices]
    ELSE [discount |-> discount, payoff_matrices |-> payoff_matrices]

\* the argument record a strategy function is called with (lines 38-43)
PlayArgs(payoff_matrices, history, myhistory, game_mode, discount) ==
    IF game_mode \in {1, 3, 5}
    THEN [history |-> history, myhistory |-> myhistory,
          discount |-> discount, payoff_matrices |-> payoff_matrices]
    ELSE [discount |-> discount, payoff_matrices |-> payoff_matrices]

\* the call and what it yields
Invoked(strategy_fn, game_mode, args, res) ==
    [fn |-> strategy_fn, game_mode |-> game_mode, args |-> args,
     rets |-> res.rets, psts |-> res.psts, raises |-> res.raises]

Invoke(strategy_fn, game_mode, args, psts) ==
    Invoked(strategy_fn, game_mode, args, Call(strategy_fn, args, psts))

play(player, payoff_matrices, history, myhistory, game_mode, discount, psts) ==
    Invoke(player.strategies[game_mode + 1], game_mode,
           PlayArgs(payoff_matrices, history, myhistory, game_mode, discount),
           psts)

\* Python list indexing: k \in -len .. len-1 is accepted, else IndexError
IndexOK(seq, k) == -Len(seq) <= k /\ k < Len(seq)

Index(seq, k) == IF k >= 0 THEN seq[k + 1] ELSE seq[Len(seq) + k + 1]

\* player2's payoff is read at [move2][move1]
LookupSwapped(payoff_matrices, which, move1, move2) ==
    IF which = 0 THEN Index(Index(payoff_matrices[1], move1), move2)
    ELSE Index(Index(payoff_matrices[2], move2), move1)

\* payoff_matrices[which][move1][move2] (lines 75-76, 93-94)
Lookup(payoff_matrices, which, move1, move2) ==
    Index(Index(payoff_matrices[which + 1], move1), move2)

(***************************************************************************)
(* One round (Tournament.play_round, Tournament.blind_round): the set of   *)
(* outcomes of the round, one per combination of the values the two        *)
(* decision functions may return.                                          *)
(***************************************************************************)
NoCall == [fn |-> "", game_mode |-> 0,
           args |-> [discount |-> One, payoff_matrices |-> <<>>]]

NoRound == [raises |-> FALSE, move1 |-> 0, move2 |-> 0, p1 |-> 0, p2 |-> 0,
            call1 |-> NoCall, call2 |-> NoCall]

CallOf(c) == [fn |-> c.fn, game_mode |-> c.game_mode, args |-> c.args]

RaiseOutcome(c1, c2, psts) ==
    [round |-> [NoRound EXCEPT !.raises = TRUE, !.call1 = c1, !.call2 = c2],
     psts |-> psts]

\* lines 75-77, 93-95: the payoffs of the moves; an index out of range raises
Outcome(payoff_matrices, c1, c2, move1, move2) ==
    IF IndexOK(payoff_matrices[1], move1)
       /\ IndexOK(payoff_matrices[1][1], move2)
    THEN [round |-> [raises |-> FALSE, move1 |-> move1, move2 |-> move2,
                     p1 |-> Lookup(payoff_matrices, 0, move1, move2),
                     p2 |-> Lookup(payoff_matrices, 1, move1, move2),
                     call1 |-> CallOf(c1), call2 |-> CallOf(c2)],
          psts |-> c2.psts]
    ELSE RaiseOutcome(CallOf(c1), CallOf(c2), c2.psts)

Outcomes(payoff_matrices, c1, c2) ==
    IF c2.raises THEN {RaiseOutcome(CallOf(c1), CallOf(c2), c2.psts)}
    ELSE {Outcome(payoff_matrices, c1, c2, move[1], move[2]) :
            move \in c1.rets \X c2.rets}

\* lines 74, 92: player2 decides after player1 (c1) has
SecondCall(payoff_matrices, player2, history, myhistory, game_mode, discount, c1) ==
    IF c1.raises THEN {RaiseOutcome(CallOf(c1), NoCall, c1.psts)}
    ELSE Outcomes(payoff_matrices, c1,
                  play(player2, payoff_matrices, history, myhistory, game_mode,
                       discount, c1.psts))

\* player1 is handed its own moves as the opponent's and the opponent's as
\* its own, player2 likewise
play_roundUnswapped(payoff_matrices, player1, player2, game_mode, history1, history2, discount, psts) ==
    SecondCall(payoff_matrices, player2, Some(history2), Some(history1),
               game_mode, discount,
               play(player1, payoff_matrices, Some(history1), Some(history2),
                    game_mode, discount, psts))

play_round(payoff_matrices, player1, player2, game_mode, history1, history2, discount, psts) ==
    SecondCall(payoff_matrices, player2, Some(history1), Some(history2),
               game_mode, discount,
               play(player1, payoff_matrices, Some(history2), Some(history1),
                    game_mode, discount, psts))

blind_round(payoff_matrices, player1, player2, game_mode, discount, psts) ==
    SecondCall(payoff_matrices, player2, None, None, game_mode, discount,
               play(player1, payoff_matrices, None, None, game_mode, discount,
                    psts))

(***************************************************************************)
(* Tournament.evaluate and Tournament.tournament as a state machine.       *)
(***************************************************************************)
VARIABLES
    players,          \* Tournament.players
    payoff_matrices,  \* Tournament.payoff_matrices
    discount_factor,  \* Tournament.discount_factor
    rounds,           \* the `rounds` argument of tournament()
    board,            \* tournament(): board[i][j][mode + 1]
    i, j,             \* tournament(): the loop indices
    pc,               \* position in tournament() / evaluate()
    mode,             \* evaluate(): the loop variable
    disc, h1, h2, r,  \* evaluate(): locals of one mode
    scores1, scores2, \* evaluate(): scoresN[mode + 1]
    psts,             \* the attributes strategy1.pst, strategy3.pst, strategy5.pst
    lastRound,        \* the most recent call of blind_round / play_round
    continues,        \* the draws of line 116 so far that did not stop a mode
    evalLog,          \* the calls of evaluate() that returned, in order
    draw,             \* evaluate(): the value random.random() last gave in this mode
    pstObj,           \* a probabilistic_suffix_tree object exercised on its own
    oppMoves,         \* the `history` argument its methods are called with
    ownMoves,         \* the `myhistory` argument its methods are called with
    answer,           \* what its last query() returned
    stage             \* how far the calls on pstObj have got

vars == <<players, payoff_matrices, discount_factor, rounds, board, i, j, pc,
          mode, disc, h1, h2, r, scores1, scores2, psts, lastRound, continues,
          evalLog, draw, pstObj, oppMoves, ownMoves, answer, stage>>

predictor == <<pstObj, oppMoves, ownMoves, answer, stage>>

\* no predictor object is exercised on its own
PredictorUnused ==
    /\ pstObj = None
    /\ oppMoves = <<>>
    /\ ownMoves = <<>>
    /\ answer = None
    /\ stage = "unused"

inputs == <<players, payoff_matrices, discount_factor, rounds>>

n == Len(players)

EmptyScores == [m \in 1..6 |-> <<>>]

Draws == {Rat(k, DrawDen) : k \in 0..(DrawDen - 1)}

Discounts == {Rat(k, DiscDen) : k \in 0..DiscDen}

\* the inner loop starts at i
FirstJSelf(a) == a

\* line 145: the first value of j for a given i
FirstJ(a) == a + 1

\* lines 144-145: the next pair of loop indices at or after (a, b)
RECURSIVE SeekPair(_, _, _)
SeekPair(a, b, len) ==
    IF a >= len THEN <<len, len>>
    ELSE IF b < len THEN <<a, b>>
    ELSE SeekPair(a + 1, FirstJ(a + 1), len)

\* line 111
EffectiveDiscount(m, d) == IF m \notin {0, 1} THEN d ELSE One

\* line 116: random.random() is called (`and` short-circuits)
DrawIsMade(m, round) == m \in {4, 5} /\ round > 0

\* the stop check is not skipped before round 0
StopCheckFromRound0(m, round, u, d) == m \in {4, 5} /\ RatGreater(u, d)

\* a draw equal to disc stops the mode too
StopCheckNotBelow(m, round, u, d) == DrawIsMade(m, round) /\ ~RatGreater(d, u)

\* line 116: the value u drawn by random.random() ends the mode
StopCheck(m, round, u, d) == DrawIsMade(m, round) /\ RatGreater(u, d)

\* disc * r in place of disc ** r
WeightProduct(m, d, round) ==
    IF m \in {0, 1, 4, 5} THEN One ELSE RatMul(d, FromInt(round))

\* the stochastic modes are discounted as well
WeightAllDiscounted(m, d, round) ==
    IF m \in {0, 1} THEN One ELSE RatPow(d, round)

\* line 124
Weight(m, d, round) == IF m \in {0, 1, 4, 5} THEN One ELSE RatPow(d, round)

\* line 128
FixedDone(m, round, total) == m \in {0, 1, 2, 3} /\ round >= total

\* lines 125-126
AppendScore(scores, m, p, weight) ==
    [scores EXCEPT ![m + 1] = Append(@, RatMul(FromInt(p), weight))]

\* the mirrored entry is not stored
StoreMatchOneSided(b, a, c, s1, s2) == [b EXCEPT ![a] = [@ EXCEPT ![c] = s1]]

\* lines 147-148
StoreMatch(b, a, c, s1, s2) ==
    [[b EXCEPT ![a] = [@ EXCEPT ![c] = s1]] EXCEPT ![c] = [@ EXCEPT ![a] = s2]]

\* the players' lists the tournaments are run on: the deterministic players
\* of main() in their order of main(), and the single matches of RandomBot
\* with its neighbours in main()
MainPlayers == <<CooperateBot, DefectBot, TFT, RandomBot, My_Player>>

RECURSIVE Pick(_)
Pick(S) ==
    IF S = {} THEN <<>>
    ELSE LET a == CHOOSE x \in S : \A y \in S : x <= y
         IN <<MainPlayers[a]>> \o Pick(S \ {a})

DeterministicLineups ==
    {Pick(S) : S \in {T \in SUBSET {1, 2, 3, 5} :
                        Cardinality(T) >= 2 /\ Cardinality(T) <= MaxPlayers}}

RandomLineups == {Pick({3, 4}), Pick({4, 5})}

TournamentWith(lineups, roundsChoices, discounts) ==
    /\ players \in lineups
    /\ payoff_matrices = <<payoff_p1, payoff_p2>>
    /\ discount_factor \in discounts
    /\ rounds \in roundsChoices
    /\ board = [a \in 0..(n - 1) |-> [b \in 0..(n - 1) |-> EmptyScores]]
    /\ i = SeekPair(0, FirstJ(0), n)[1]
    /\ j = SeekPair(0, FirstJ(0), n)[2]
    /\ pc = "tournament"
    /\ mode = 0
    /\ disc = One
    /\ h1 = <<>>
    /\ h2 = <<>>
    /\ r = 0
    /\ scores1 = EmptyScores
    /\ scores2 = EmptyScores
    /\ psts = [fn \in MemoryFns |-> None]
    /\ lastRound = NoRound
    /\ continues = 0
    /\ evalLog = <<>>
    /\ draw = None

InitWith(lineups, roundsChoices, discounts) ==
    /\ TournamentWith(lineups, roundsChoices, discounts)
    /\ PredictorUnused

Init ==
    \/ InitWith(DeterministicLineups, 0..MaxRounds, Discounts)
    \/ InitWith(RandomLineups, 0..MaxRandomRounds, Discounts)

\* lines 144-146, 108-110: the next pair is handed to evaluate()
CallEvaluate ==
    /\ pc = "tournament"
    /\ i < n
    /\ pc' = "init"
    /\ mode' = 0
    /\ scores1' = EmptyScores
    /\ scores2' = EmptyScores
    /\ UNCHANGED <<inputs, board, i, j, disc, h1, h2, r, psts, lastRound,
                   continues, evalLog, draw, predictor>>

\* lines 111-113
StartMode ==
    /\ pc = "init"
    /\ disc' = EffectiveDiscount(mode, discount_factor)
    /\ h1' = <<>>
    /\ h2' = <<>>
    /\ r' = 0
    /\ pc' = "playing"
    /\ UNCHANGED <<inputs, board, i, j, mode, scores1, scores2, psts,
                   lastRound, continues, evalLog, draw, predictor>>

\* lines 116-117: the draw exceeds disc and the loop is left
StopDraw ==
    /\ pc = "playing"
    /\ \E u \in Draws : StopCheck(mode, r, u, disc) /\ draw' = Some(u)
    /\ pc' = "terminated_stochastic"
    /\ UNCHANGED <<inputs, board, i, j, mode, disc, h1, h2, r, scores1,
                   scores2, psts, lastRound, continues, evalLog, predictor>>

\* lines 116-129: one iteration of the loop that plays a round
PlayRound ==
    /\ pc = "playing"
    /\ \E u \in Draws :
          /\ ~StopCheck(mode, r, u, disc)
          /\ draw' = IF DrawIsMade(mode, r) THEN Some(u) ELSE None
    /\ DrawIsMade(mode, r) => continues < MaxContinues
    /\ continues' = IF DrawIsMade(mode, r) THEN continues + 1 ELSE continues
    /\ \E out \in
          IF mode \in {0, 2, 4}
          THEN blind_round(payoff_matrices, players[i + 1], players[j + 1],
                           mode, disc, psts)
          ELSE play_round(payoff_matrices, players[i + 1], players[j + 1],
                          mode, h1, h2, disc, psts) :
        /\ psts' = out.psts
        /\ lastRound' = out.round
        /\ IF out.round.raises
           THEN /\ pc' = "error"
                /\ UNCHANGED <<h1, h2, r, scores1, scores2>>
           ELSE /\ h1' = IF mode \in {0, 2, 4} THEN h1
                         ELSE Append(h1, out.round.move1)
                /\ h2' = IF mode \in {0, 2, 4} THEN h2
                         ELSE Append(h2, out.round.move2)
                /\ scores1' = AppendScore(scores1, mode, out.round.p1,
                                          Weight(mode, disc, r))
                /\ scores2' = AppendScore(scores2, mode, out.round.p2,
                                          Weight(mode, disc, r))
                /\ r' = r + 1
                /\ pc' = IF FixedDone(mode, r + 1, rounds)
                         THEN "terminated_fixed" ELSE "playing"
    /\ UNCHANGED <<inputs, board, i, j, mode, disc, evalLog, predictor>>

\* line 110: the next mode
NextMode ==
    /\ pc \in {"terminated_fixed", "terminated_stochastic"}
    /\ mode < 5
    /\ mode' = mode + 1
    /\ pc' = "init"
    /\ draw' = None
    /\ UNCHANGED <<inputs, board, i, j, disc, h1, h2, r, scores1, scores2,
                   psts, lastRound, continues, evalLog, predictor>>

\* lines 130, 146-148: evaluate() returns and the board is filled
ReturnEvaluate ==
    /\ pc \in {"terminated_fixed", "terminated_stochastic"}
    /\ mode = 5
    /\ board' = StoreMatch(board, i, j, scores1, scores2)
    /\ evalLog' = Append(evalLog, [i |-> i, j |-> j, s1 |-> scores1,
                                   s2 |-> scores2])
    /\ i' = SeekPair(i, j + 1, n)[1]
    /\ j' = SeekPair(i, j + 1, n)[2]
    /\ pc' = "tournament"
    /\ mode' = 0
    /\ disc' = One
    /\ h1' = <<>>
    /\ h2' = <<>>
    /\ r' = 0
    /\ scores1' = EmptyScores
    /\ scores2' = EmptyScores
    /\ draw' = None
    /\ UNCHANGED <<inputs, psts, lastRound, continues, predictor>>

\* line 149
ReturnBoard ==
    /\ pc = "tournament"
    /\ i >= n
    /\ pc' = "done"
    /\ UNCHANGED <<inputs, board, i, j, mode, disc, h1, h2, r, scores1,
                   scores2, psts, lastRound, continues, evalLog, draw,
                   predictor>>

Next ==
    \/ CallEvaluate
    \/ StartMode
    \/ StopDraw
    \/ PlayRound
    \/ NextMode
    \/ ReturnEvaluate
    \/ ReturnBoard

Spec == Init /\ [][Next]_vars

\* tournaments in which one player's decision functions are supplied by the
\* caller and keep to no contract
SuppliedLineups == {<<SuppliedBot, CooperateBot>>, <<TFT, SuppliedBot>>}

InitSupplied == InitWith(SuppliedLineups, {1}, Discounts)

SpecSupplied == InitSupplied /\ [][Next]_vars

\* tournaments long enough for strategy1/3/5 to consult their predictor; the
\* discount factors are those whose powers of modes 2 and 3 stay small
InitLong == InitWith(DeterministicLineups, {LongRounds}, {Rat(0, 1), One})

SpecLong == InitLong /\ [][Next]_vars

(***************************************************************************)
(* A probabilistic_suffix_tree object exercised on its own, called as      *)
(* strategy1 calls it (lines 95-98) in two successive rounds: constructed  *)
(* on the histories, queried, and queried again after one more round has   *)
(* been observed.  The depth and the histories are free.                   *)
(***************************************************************************)
tournamentVars == <<players, payoff_matrices, discount_factor, rounds, board, i, j, pc, mode, disc, h1, h2, r, scores1, scores2, psts, lastRound, continues, evalLog, draw>>

Moves == {0, 1}

RECURSIVE Histories(_)
Histories(len) ==
    IF len = 0 THEN {<<>>}
    ELSE {Append(h, m) : h \in Histories(len - 1), m \in Moves}

\* lines 47-49 with line 31: context1[-d] of a context shorter than d raises
\* IndexError in the first iteration of the loop of traverse
QueryRaises(tree, history) == tree.depth >= 2 /\ Len(history) < tree.depth

\* lines 13-15: the object before line 16 calls update
InitPredictor ==
    /\ TournamentWith({<<CooperateBot, DefectBot>>}, {0}, {One})
    /\ \E len \in 0..MaxHistory :
          /\ oppMoves \in Histories(len)
          /\ ownMoves \in Histories(len)
    /\ pstObj \in {Some([depth |-> depth, nodes |-> PSTNode, passes |-> 0]) :
                     depth \in 1..MaxDepth}
    /\ answer = None
    /\ stage = "new"

\* line 16
Construct ==
    /\ stage = "new"
    /\ pstObj' = Some(update(pstObj.val, oppMoves, ownMoves))
    /\ stage' = "built"
    /\ UNCHANGED <<tournamentVars, oppMoves, ownMoves, answer>>

\* what query() leaves behind when it returns
Answered(prediction) == [counts |-> prediction.counts, ret |-> prediction.ret]

\* lines 45-60
Query ==
    /\ stage \in {"built", "grown"}
    /\ IF QueryRaises(pstObj.val, oppMoves)
       THEN /\ pstObj' = Some(update(pstObj.val, oppMoves, ownMoves))
            /\ answer' = None
            /\ stage' = "error"
       ELSE /\ pstObj' = Some(query(pstObj.val, oppMoves, ownMoves).tree)
            /\ answer' = Some(Answered(query(pstObj.val, oppMoves, ownMoves)))
            /\ stage' = IF stage = "built" THEN "queried" ELSE "final"
    /\ UNCHANGED <<tournamentVars, oppMoves, ownMoves>>

\* tournament.py lines 120-121: one more round is appended to the histories
Observe ==
    /\ stage = "queried"
    /\ Len(oppMoves) < MaxHistory
    /\ \E m1 \in Moves, m2 \in Moves :
          /\ oppMoves' = Append(oppMoves, m1)
          /\ ownMoves' = Append(ownMoves, m2)
    /\ stage' = "grown"
    /\ UNCHANGED <<tournamentVars, pstObj, answer>>

NextPredictor ==
    \/ Construct
    \/ Query
    \/ Observe

SpecPredictor == InitPredictor /\ [][NextPredictor]_vars

(***************************************************************************)
(* Properties.                                                             *)
(***************************************************************************)
Played(scores, m) == Len(scores[m + 1])

\* C1: when a fixed mode (0..3) terminates, the number of rounds played in
\* it, the length of scores1[mode] and of scores2[mode], equals `rounds`.
C1_FixedRoundsExact ==
    pc = "terminated_fixed" =>
        /\ Played(scores1, mode) = rounds
        /\ Played(scores2, mode) = rounds

\* C2: when a stochastic mode (4, 5) terminates, at least one round has been
\* played and recorded for both players.
C2_StochasticAtLeastOne ==
    (pc = "terminated_stochastic" /\ mode \in {4, 5}) =>
        /\ Played(scores1, mode) >= 1
        /\ Played(scores2, mode) >= 1

\* a stochastic mode stopped by the first draw, right after round 0
C2_Witness ==
    /\ pc = "terminated_stochastic"
    /\ mode = 5
    /\ Played(scores1, mode) = 1
    /\ Played(scores2, mode) = 1

\* C3: for every discount factor in [0, 1] every mode eventually leaves
\* PLAYING under fair random draws, so that the tournament returns.  Fair
\* draws end a stochastic mode only if some draw can: whenever the loop of a
\* stochastic mode draws, a value that exceeds disc and stops it exists.
C3_DrawCanStop ==
    (pc = "playing" /\ DrawIsMade(mode, r)) =>
        \E u \in Draws : StopCheck(mode, r, u, disc)

CallsOf(round) == {c \in {round.call1, round.call2} : c.fn # ""}

\* C4: a decision function called in a blind mode (0, 2, 4) receives
\* (discount, payoff_matrices) only and no history; one called in a memory
\* mode (1, 3, 5) receives (history, myhistory, discount, payoff_matrices).
C4_CallingConvention ==
    \A c \in CallsOf(lastRound) :
        /\ c.game_mode \in {0, 2, 4} => DOMAIN c.args = BlindArgNames
        /\ c.game_mode \in {1, 3, 5} =>
              /\ DOMAIN c.args = MemoryArgNames
              /\ c.args.history.some
              /\ c.args.myhistory.some
        /\ c.args.discount = EffectiveDiscount(c.game_mode, discount_factor)
        /\ c.args.payoff_matrices = payoff_matrices

\* a blind round played in the same match after the memory modes 1 and 3
\* have filled their histories, and a memory round of mode 5
C4_Witness ==
    \/ /\ lastRound.call1.game_mode = 4
       /\ lastRound.call2.fn = "strategy4"
       /\ Played(scores1, 3) > 0
    \/ /\ lastRound.call1.game_mode = 5
       /\ lastRound.call2.fn = "tit_for_tat"
       /\ lastRound.call2.args.history.val # <<>>

\* C5: in every round the unweighted payoff of player1 is
\* payoff_matrices[0][move1][move2] and that of player2 is
\* payoff_matrices[1][move1][move2], in blind and in memory modes.
C5_PayoffLookup ==
    (lastRound.call1.fn # "" /\ ~lastRound.raises) =>
        /\ lastRound.move1 \in {0, 1}
        /\ lastRound.move2 \in {0, 1}
        /\ lastRound.p1 =
              payoff_matrices[1][lastRound.move1 + 1][lastRound.move2 + 1]
        /\ lastRound.p2 =
              payoff_matrices[2][lastRound.move1 + 1][lastRound.move2 + 1]

\* a memory round and a blind round in which the two moves differ
C5_Witness ==
    /\ lastRound.call1.fn # ""
    /\ lastRound.move1 = 0
    /\ lastRound.move2 = 1
    /\ lastRound.p1 = 0
    /\ lastRound.p2 = 5

\* the decision functions with the same deterministic body
SameDecision(f, g) ==
    \/ f = g /\ f \in {"always_cooperate", "always_defect", "tit_for_tat"}
    \/ {f, g} \subseteq {"strategy0", "strategy2", "strategy4"}
    \/ {f, g} \subseteq MemoryFns

PairedModes(player) ==
    /\ SameDecision(player.strategies[1], player.strategies[3])
    /\ SameDecision(player.strategies[2], player.strategies[4])

\* C6: with discount factor 1.0 and two agents whose decision functions are
\* deterministic and the same for modes 0 and 2 and for modes 1 and 3, the
\* score sequence of mode 2 equals that of mode 0 and the score sequence of
\* mode 3 equals that of mode 1, for both players.
C6_UnitDiscountEquivalence ==
    (/\ pc = "terminated_fixed"
     /\ mode \in {2, 3}
     /\ discount_factor = One
     /\ PairedModes(players[i + 1])
     /\ PairedModes(players[j + 1])) =>
        /\ scores1[mode + 1] = scores1[mode - 1]
        /\ scores2[mode + 1] = scores2[mode - 1]

\* mode 3 of a match of TFT with My_Player has ended after two rounds
C6_Witness ==
    /\ pc = "terminated_fixed"
    /\ mode = 3
    /\ discount_factor = One
    /\ players[i + 1] = TFT
    /\ players[j + 1] = My_Player
    /\ Played(scores1, 3) = 2
    /\ scores1[4] = scores1[2]
    /\ scores1[4][1] # scores1[4][2]

Indices == 0..(n - 1)

\* C7: in the board that tournament() returns, board[i][j][mode] and
\* board[j][i][mode] have the same length for every i # j and every mode,
\* the number of rounds of that mode in the one match of i and j.
C7_BoardSymmetry ==
    pc = "done" =>
        \A a \in Indices, b \in Indices, m \in 1..6 :
            a # b => Len(board[a][b][m]) = Len(board[b][a][m])

\* a returned board in which a stochastic mode has two rounds
C7_Witness ==
    /\ pc = "done"
    /\ n = 3
    /\ Len(board[0][2][6]) = 2
    /\ Len(board[2][0][6]) = 2
    /\ Len(board[1][2][6]) = 1

LogEntries(a, b) == {k \in 1..Len(evalLog) : evalLog[k].i = a /\ evalLog[k].j = b}

\* C8: tournament() evaluates every pair i < j exactly once and no agent
\* against itself; board[i][j] holds player1's score lists and board[j][i]
\* player2's score lists of that match; board[i][i] stays six empty lists.
C8_RoundRobin ==
    /\ \A k \in 1..Len(evalLog) : evalLog[k].i # evalLog[k].j
    /\ \A a \in Indices, b \in Indices : Cardinality(LogEntries(a, b)) <= 1
    /\ \A a \in Indices : board[a][a] = EmptyScores
    /\ pc \in {"init", "playing", "terminated_fixed", "terminated_stochastic"}
          => i # j /\ LogEntries(i, j) = {}
    /\ pc = "done" =>
          \A a \in Indices, b \in Indices :
              a < b => \E k \in LogEntries(a, b) :
                          /\ LogEntries(b, a) = {}
                          /\ board[a][b] = evalLog[k].s1
                          /\ board[b][a] = evalLog[k].s2

\* a returned board of three players, three matches
C8_Witness ==
    /\ pc = "done"
    /\ n = 3
    /\ Len(evalLog) = 3
    /\ board[0][2] # board[2][0]
    /\ board[1][2] # EmptyScores

\* C9: a move outside {0, 1} returned by a decision function is rejected or
\* clamped before the payoff lookup: no round that completes has such a
\* move, and no history holds one.
C9_MovesGuarded ==
    /\ (lastRound.call1.fn # "" /\ ~lastRound.raises) =>
          lastRound.move1 \in {0, 1} /\ lastRound.move2 \in {0, 1}
    /\ \A k \in 1..Len(h1) : h1[k] \in {0, 1}
    /\ \A k \in 1..Len(h2) : h2[k] \in {0, 1}

\* path is a run of consecutive (own, opponent) move pairs of the histories
IsWindow(path, myhistory, history) ==
    \E start \in 0..(Len(history) - Len(path)) :
        WindowPath(history, myhistory, start, Len(path)) = path

\* C10: the predictor a memory strategy consults in a match holds only move
\* pairs of that match (it is not shared with other agents or matches).
C10_PredictorLocal ==
    (/\ pc \in {"playing", "terminated_fixed", "terminated_stochastic"}
     /\ mode \in {1, 3, 5}
     /\ Len(h1) > Threshold) =>
        /\ players[i + 1].strategies[mode + 1] \in MemoryFns =>
              LET pst == psts[players[i + 1].strategies[mode + 1]]
              IN pst.some /\ \A path \in DOMAIN pst.val.nodes :
                                IsWindow(path, h1, h2) \/ IsWindow(path, h2, h1)
        /\ players[j + 1].strategies[mode + 1] \in MemoryFns =>
              LET pst == psts[players[j + 1].strategies[mode + 1]]
              IN pst.some /\ \A path \in DOMAIN pst.val.nodes :
                                IsWindow(path, h2, h1) \/ IsWindow(path, h1, h2)

\* what a default memory strategy owes below the threshold: the opponent's
\* last move, cooperation (0) on an empty history
MirrorsOrCooperates(c, move) ==
    (c.fn \in MemoryFns /\ Len(c.args.history.val) < Threshold) =>
        /\ move = IF c.args.history.val = <<>> THEN 0
                  ELSE c.args.history.val[Len(c.args.history.val)]
        /\ ~psts[c.fn].some

\* C11: strategy1, strategy3 and strategy5, called with an opponent history
\* of fewer than 20 moves, neither build nor consult the predictor and
\* return the opponent's last move, or 0 (cooperate) on an empty history.
C11_BelowThreshold ==
    (lastRound.call1.fn # "" /\ ~lastRound.raises) =>
        /\ MirrorsOrCooperates(lastRound.call1, lastRound.move1)
        /\ MirrorsOrCooperates(lastRound.call2, lastRound.move2)

\* the trailing context of length `depth` of the histories queried with
TrailingContext ==
    [k \in 1..Len(LastN(oppMoves, pstObj.val.depth)) |->
        <<LastN(ownMoves, pstObj.val.depth)[k],
          LastN(oppMoves, pstObj.val.depth)[k]>>]

\* the windows that update() inserts from the histories whose move pairs
\* are the trailing context
Occurrences ==
    {start \in 0..(WindowCount(oppMoves, pstObj.val.depth) - 1) :
        WindowPath(oppMoves, ownMoves, start, pstObj.val.depth)
            = TrailingContext}

Answers == stage \in {"queried", "final"} /\ answer.some

\* C12: a query whose trailing context of length `depth` occurred exactly
\* once in the inserted sequence returns the single continuation observed
\* after that occurrence: the opponent move that followed it.
C12_SingleContinuation ==
    (Answers /\ Cardinality(Occurrences) = 1) =>
        \A start \in Occurrences :
            answer.val.ret = oppMoves[start + pstObj.val.depth + 1]

\* the walk from the root along the first `steps` pairs of the trailing
\* context meets a missing child
MissingChild(steps) ==
    \E k \in 1..steps :
        /\ k <= Len(TrailingContext)
        /\ SubSeq(TrailingContext, 1, k) \notin DOMAIN pstObj.val.nodes

\* C13: when the root has no child for the oldest pair of the trailing
\* context, or any later step of the walk along the context (one step per
\* context pair) meets a missing child, query reports four zero counts and
\* returns 0.
C13_NovelContextCooperates ==
    (Answers /\ MissingChild(pstObj.val.depth)) =>
        /\ answer.val.counts = ZeroCounts
        /\ answer.val.ret = 0

InMemoryMode ==
    /\ pc \in {"playing", "terminated_fixed", "terminated_stochastic"}
    /\ mode \in {1, 3, 5}

\* own opens with 0 and then repeats opp with a delay of one round
Mirrors(own, opp) ==
    /\ own # <<>> => own[1] = 0
    /\ \A k \in 2..Len(own) : own[k] = opp[k - 1]

\* C14: in a memory mode tit_for_tat plays 0 in round 0 and in every round
\* r > 0 the opponent's move of round r - 1; against an agent that always
\* defects in mode 1 its moves are 0, 1, 1, 1, 1, ...
C14_TitForTat ==
    InMemoryMode =>
        /\ players[i + 1].strategies[mode + 1] = "tit_for_tat" =>
              Mirrors(h1, h2)
        /\ players[j + 1].strategies[mode + 1] = "tit_for_tat" =>
              Mirrors(h2, h1)
        /\ (/\ mode = 1
            /\ players[i + 1].strategies[mode + 1] = "always_defect"
            /\ players[j + 1].strategies[mode + 1] = "tit_for_tat") =>
              \A k \in 1..Len(h2) : h2[k] = IF k = 1 THEN 0 ELSE 1

\* five rounds of mode 1 of DefectBot against TFT
C14_Witness ==
    /\ pc = "playing"
    /\ mode = 1
    /\ players[i + 1] = DefectBot
    /\ players[j + 1] = TFT
    /\ h1 = <<1, 1, 1, 1, 1>>
    /\ h2 = <<0, 1, 1, 1, 1>>

\* the draw u = <<num, den>> exceeds the discount d
Exceeds(u, d) == u[1] * d[2] > d[1] * u[2]

\* one pass through the loop of a stochastic mode, from the top of the loop
StochasticStep ==
    /\ r = 0 => /\ draw' = None
                /\ pc' # "terminated_stochastic"
    /\ r > 0 =>
          /\ draw'.some
          /\ pc' = "terminated_stochastic" <=>
                Exceeds(draw'.val, IF mode \in {0, 1} THEN One
                                   ELSE discount_factor)
    /\ pc' = "terminated_stochastic" =>
          UNCHANGED <<r, h1, h2, scores1, scores2, lastRound, psts>>
    /\ pc' # "terminated_stochastic" =>
          /\ r' = r + 1
          /\ lastRound'.call1.game_mode = mode
          /\ lastRound'.call2.game_mode = mode
          /\ Len(scores1'[mode + 1]) = Len(scores1[mode + 1]) + 1
          /\ Len(scores2'[mode + 1]) = Len(scores2[mode + 1]) + 1
          /\ mode = 5 => /\ h1' = Append(h1, lastRound'.move1)
                         /\ h2' = Append(h2, lastRound'.move2)

\* C15: in modes 4 and 5 one random value is drawn before each round r > 0
\* and none before round 0; the match stops if and only if the draw exceeds
\* the effective discount, and then round r is not played: no agent decides
\* and no score or history entry is added; otherwise round r is played and
\* recorded.  No value is drawn in the modes 0..3.
C15_DrawSemantics ==
    [][/\ (pc = "playing" /\ mode \in {4, 5}) => StochasticStep
       /\ (pc = "playing" /\ mode \notin {4, 5}) => draw' = None]_vars

\* mode 5 stopped by its second draw: two rounds are recorded
C15_Witness ==
    /\ pc = "terminated_stochastic"
    /\ mode = 5
    /\ r = 2
    /\ draw.some
    /\ Len(h1) = 2
    /\ Played(scores1, 5) = 2
    /\ Played(scores2, 5) = 2

\* the first len moves of a history
Prefix(h, len) == SubSeq(h, 1, len)

\* C16: every mode starts with both histories empty; in a memory mode, at
\* the decision of round r both histories hold the r moves of the rounds
\* 0..r-1, player1 is called with history = player2's moves and myhistory =
\* its own moves, player2 with the roles swapped, both on the same
\* histories, and the two new moves are appended after both have decided,
\* each to its own player's history.
C16_Histories ==
    /\ (pc = "playing" /\ r = 0) => h1 = <<>> /\ h2 = <<>>
    /\ InMemoryMode => Len(h1) = r /\ Len(h2) = r
    /\ (InMemoryMode /\ r >= 1) =>
          /\ lastRound.call1.game_mode = mode
          /\ lastRound.call1.args.history = Some(Prefix(h2, r - 1))
          /\ lastRound.call1.args.myhistory = Some(Prefix(h1, r - 1))
          /\ lastRound.call2.game_mode = mode
          /\ lastRound.call2.args.history = Some(Prefix(h1, r - 1))
          /\ lastRound.call2.args.myhistory = Some(Prefix(h2, r - 1))
          /\ h1[r] = lastRound.move1
          /\ h2[r] = lastRound.move2

\* the second round of a memory mode in which the two players' first moves
\* differ
C16_Witness ==
    /\ InMemoryMode
    /\ r = 2
    /\ h1[1] # h2[1]
    /\ lastRound.call1.args.history.val = <<h2[1]>>
    /\ lastRound.call2.args.history.val = <<h1[1]>>

\* d^k for the rational d
Power(d, k) == IF k = 0 THEN One ELSE Rat(d[1]^k, d[2]^k)

\* the weight the claim gives to round `round` of mode m
ClaimedWeight(m, round) ==
    IF m \in {2, 3} THEN Power(discount_factor, round) ELSE One

\* the discount the claim hands to the agents in mode m
ClaimedDiscount(m) == IF m \in {0, 1} THEN One ELSE discount_factor

\* C17: the score recorded for round r is the payoff times the weight of
\* the round, d^r with d the configured discount factor in modes 2 and 3
\* and 1 in modes 0, 1, 4 and 5; the discount handed to the agents is 1 in
\* modes 0 and 1 and d in modes 2..5.
C17_Weights ==
    (pc \in {"playing", "terminated_fixed", "terminated_stochastic"}
     /\ r >= 1) =>
        /\ Len(scores1[mode + 1]) = r
        /\ Len(scores2[mode + 1]) = r
        /\ scores1[mode + 1][r] =
              RatMul(FromInt(lastRound.p1), ClaimedWeight(mode, r - 1))
        /\ scores2[mode + 1][r] =
              RatMul(FromInt(lastRound.p2), ClaimedWeight(mode, r - 1))
        /\ \A k \in 1..r : \E p \in {0, 1, 3, 5} :
              scores1[mode + 1][k] =
                  RatMul(FromInt(p), ClaimedWeight(mode, k - 1))
        /\ lastRound.call1.args.discount = ClaimedDiscount(mode)
        /\ lastRound.call2.args.discount = ClaimedDiscount(mode)

\* the second round of mode 3 with discount 1/2: the payoff 5 is recorded
\* as 5/2
C17_Witness ==
    /\ pc = "terminated_fixed"
    /\ mode = 3
    /\ r = 2
    /\ discount_factor = Rat(1, 2)
    /\ lastRound.p1 = 5
    /\ scores1[4] = <<FromInt(0), Rat(5, 2)>>

\* the node whose child counts the query has read: the walk of traverse on
\* the updated tree, along the contexts that query hands to it
NodeReached ==
    Walk(pstObj.val.nodes, LastN(ownMoves, pstObj.val.depth),
         LastN(oppMoves, pstObj.val.depth), pstObj.val.depth, <<>>)

\* C18: query walks from the root along all `depth` pairs of the trailing
\* context, from the oldest to the most recent one, and reads the child
\* counts of the node it has then reached: the node of the whole context.
C18_FullContextConsumed ==
    (Answers /\ NodeReached.some) =>
        /\ Len(NodeReached.val) = Len(TrailingContext)
        /\ NodeReached.val = TrailingContext

\* max(0, len(history) - depth - 1)
ClaimedWindows(history, depth) ==
    IF Len(history) - depth - 1 > 0 THEN Len(history) - depth - 1 ELSE 0

CountIn(nodes, p) == IF p \in DOMAIN nodes THEN nodes[p] ELSE 0

\* the windows, among the first `count`, whose path runs through node p
WindowsThrough(p, history, myhistory, count) ==
    {start \in 0..(count - 1) :
        WindowPath(history, myhistory, start, Len(p)) = p}

SumOfChildren(nodes, p) ==
    CountIn(nodes, Append(p, Keys[1])) + CountIn(nodes, Append(p, Keys[2]))
    + CountIn(nodes, Append(p, Keys[3])) + CountIn(nodes, Append(p, Keys[4]))

\* the shape of a tree of depth `depth`
WellFormed(nodes, depth) ==
    /\ nodes[<<>>] = 0
    /\ \A p \in DOMAIN nodes :
          /\ Len(p) <= depth
          /\ (Len(p) >= 1 /\ Len(p) < depth) =>
                nodes[p] = SumOfChildren(nodes, p)

\* one call of update(history, myhistory) has led from old to new
Updated(old, new, history, myhistory, count) ==
    /\ new.depth = old.depth
    /\ new.passes = old.passes + count * old.depth
    /\ DOMAIN old.nodes \subseteq DOMAIN new.nodes
    /\ \A p \in DOMAIN new.nodes :
          /\ new.nodes[p] = CountIn(old.nodes, p)
                + IF p = <<>> THEN 0
                  ELSE Cardinality(WindowsThrough(p, history, myhistory, count))
          /\ p \notin DOMAIN old.nodes => new.nodes[p] >= 1
    /\ \A start \in 0..(count - 1), len \in 1..old.depth :
          WindowPath(history, myhistory, start, len) \in DOMAIN new.nodes
    /\ WellFormed(new.nodes, new.depth)

\* C19: a call of update(history, myhistory) processes exactly
\* max(0, len(history) - depth - 1) windows of `depth` consecutive positions
\* starting at 0, 1, ...; for each it creates the missing nodes of the path
\* keyed (myhistory[k], history[k]) and adds one to the count of each of
\* the `depth` nodes on it.  No node is deleted, the root count stays 0, no
\* node lies deeper than `depth`, and the count of every non-root node
\* above level `depth` is the sum of its children's counts.
C19_UpdateWindows ==
    [][(stage \in {"new", "built", "grown"} /\ stage' # stage) =>
          Updated(pstObj.val, pstObj'.val, oppMoves, ownMoves,
                  ClaimedWindows(oppMoves, pstObj.val.depth))]_vars

\* a tree of depth 3 after two updates with the same two windows, which
\* share their first pair and end in different nodes
C19_Witness ==
    /\ stage = "queried"
    /\ pstObj.val.depth = 3
    /\ pstObj.val.passes = 12
    /\ \E p \in DOMAIN pstObj.val.nodes, q \in DOMAIN pstObj.val.nodes :
          /\ Len(p) = 3
          /\ pstObj.val.nodes[p] = 2
          /\ Len(q) = 1
          /\ pstObj.val.nodes[q] = 4

\* a scan keeps its champion unless pair k has a strictly larger count
Better(counts, champion, k) ==
    IF counts[k] > counts[champion] THEN k ELSE champion

\* the first maximal pair in the order (0,0), (0,1), (1,0), (1,1)
FirstMaximal(counts) ==
    Better(counts, Better(counts, Better(counts, 1, 2), 3), 4)

Total(counts) == counts[1] + counts[2] + counts[3] + counts[4]

\* C20: when the four child counts are not all zero, query picks the pair
\* with the largest count, the first such pair in the order (0,0), (0,1),
\* (1,0), (1,1), and returns 0 if the opponent move of that pair is 0 and 1
\* otherwise: the answer is a function of the four counts.
C20_ArgMaxTieBreak ==
    (Answers /\ Total(answer.val.counts) > 0) =>
        answer.val.ret =
            IF Keys[FirstMaximal(answer.val.counts)][2] = 0 THEN 0 ELSE 1

\* (0,1) and (1,0) tie for the largest count and (0,1), the first, is
\* picked
C20_Witness ==
    /\ Answers
    /\ answer.val.counts[2] = answer.val.counts[3]
    /\ answer.val.counts[2] > answer.val.counts[1]
    /\ answer.val.counts[2] > answer.val.counts[4]
    /\ answer.val.ret = 1

=============================================================================
